---- MODULE Spec2Model ----
(***************************************************************************)
(* Model of the detection backend app1.py: the sqlite connection pool,     *)
(* the detections table, the two lru_cache'd aggregate reads, the task     *)
(* queue with its worker threads, the alert policy and the settings.       *)
(*                                                                         *)
(* Distances and thresholds are floats with two decimals in the code; the  *)
(* model holds them as integers in hundredths of a meter (2.0 m = 200).    *)
(* A float is a record [k, v]: k is "fin", "nan", "inf" or "ninf".         *)
(***************************************************************************)
EXTENDS Integers, Sequences, FiniteSets, TLC

\* ------------------------------------------------------------------
\* Program constants
\* ------------------------------------------------------------------
\* cached_history(50) in history()
HistoryLimit == 50
\* settings["threshold"] = 2.0
InitialThreshold == 200

\* ------------------------------------------------------------------
\* Bounds
\* ------------------------------------------------------------------
\* The sizes of the program, scaled down so that an empty pool, a full pool,
\* a job waiting for a busy worker and two jobs running side by side are all
\* reached with the workloads below: app1.py has DB_POOL_MAX = 5,
\* BACKGROUND_WORKERS = 3 and range(4) frames per video.
DB_POOL_MAX == 2
BACKGROUND_WORKERS == 2
VideoIterations == 2
\* A limit below the number of rows, for a direct call of cached_history.
SmallLimit == 1
\* Rows detections.db holds from earlier runs when the process starts.
PriorRows == 2
\* Workload of Spec: photo uploads, operations that raise, calls of each read.
MaxPhotos == 1
MaxFailures == 1
MaxReads == 2
\* Workload of SpecPolicy: one photo and one video, no failure.
PolicyPhotos == 1
PolicyVideos == 1
\* Workload of FairJobs: one video and calls of history().
JobsVideos == 1
JobsReads == 2
\* Workload of FairWorkers: videos and operations that raise.
WorkersVideos == 2
WorkersFailures == 1
\* Workload of SpecQueue: more videos than workers, and operations that raise.
QueueVideos == 3
QueueFailures == 1
\* Workload of SpecSubscribe: one video, no failure.
SubscribeVideos == 1
\* Rows and columns of the disparity maps of SpecEstimate.
MapSize == 3

\* ------------------------------------------------------------------
\* Threads: the worker threads and one request thread per endpoint
\* ------------------------------------------------------------------
Workers == 1..BACKGROUND_WORKERS
PhotoReq == BACKGROUND_WORKERS + 1
VideoReq == BACKGROUND_WORKERS + 2
StatsReq == BACKGROUND_WORKERS + 3
HistReq == BACKGROUND_WORKERS + 4
Threads == 1..(BACKGROUND_WORKERS + 4)
Appenders == Workers \cup {PhotoReq}
Readers == {StatsReq, HistReq}

\* ------------------------------------------------------------------
\* Floats
\* ------------------------------------------------------------------
Fin(v) == [k |-> "fin", v |-> v]
NaN == [k |-> "nan", v |-> 0]
PosInf == [k |-> "inf", v |-> 0]
NegInf == [k |-> "ninf", v |-> 0]

\* Python's a <= b on floats: every comparison with nan is False.
FloatLeq(a, b) ==
    CASE a.k = "nan" \/ b.k = "nan" -> FALSE
      [] a.k = "ninf" -> TRUE
      [] b.k = "inf" -> TRUE
      [] a.k = "inf" -> FALSE
      [] b.k = "ninf" -> FALSE
      [] OTHER -> a.v <= b.v

\* The JSON values a client may post as "threshold" (or leave out).
Missing == [ty |-> "missing", s |-> "", f |-> NaN]
JStr(s) == [ty |-> "str", s |-> s, f |-> NaN]
JNum(f) == [ty |-> "num", s |-> "", f |-> f]
ThresholdInputs ==
    {Missing, JStr("abc"), JStr("nan"), JStr("inf"), JNum(Fin(150))}

\* The decimal strings of the inputs, as float() reads them.
ParseDecimal(s) ==
    CASE s = "1.5" -> [ok |-> TRUE, f |-> Fin(150)]
      [] s = "2.0" -> [ok |-> TRUE, f |-> Fin(200)]
      [] s = "nan" -> [ok |-> TRUE, f |-> NaN]
      [] s = "inf" -> [ok |-> TRUE, f |-> PosInf]
      [] s = "-inf" -> [ok |-> TRUE, f |-> NegInf]
      [] OTHER -> [ok |-> FALSE, f |-> NaN]

\* float(x): TypeError for None, ValueError for a string that is no number;
\* "nan" and "inf" are numbers to float().
PyFloat(x) ==
    CASE x.ty = "missing" -> [ok |-> FALSE, f |-> NaN]
      [] x.ty = "str" -> ParseDecimal(x.s)
      [] OTHER -> [ok |-> TRUE, f |-> x.f]

\* bool(x) of the posted "enabled" value.
EnabledInputs == {Missing, JStr("false"), JNum(Fin(0)), JNum(Fin(100))}
PyBool(x) ==
    CASE x.ty = "missing" -> FALSE
      [] x.ty = "str" -> x.s # ""
      [] OTHER -> ~(x.f.k = "fin" /\ x.f.v = 0)

\* ------------------------------------------------------------------
\* simulate_detection_from_file: h = sum(bytes(path)) % 100
\* ------------------------------------------------------------------
PhotoHashes == {20, 31}
VideoBases == {82}

ObjType(h) == IF h % 2 = 0 THEN "pedestrian" ELSE "vehicle"
\* round(0.5 + (h / 100.0) * 5.0, 2), in hundredths
Distance(h) == 50 + 5 * h
\* path + str(i) adds the byte of the digit i to the sum
FrameHash(base, i) == (base + 48 + i) % 100

\* ------------------------------------------------------------------
\* The alert policy of upload_photo and simulate_video_processing
\* ------------------------------------------------------------------
\* Mutant of WithinThreshold: rec["distance"] < settings["threshold"]
WithinThresholdStrict(dist, threshold) == FloatLeq(Fin(dist + 1), threshold)

\* rec["distance"] <= settings["threshold"]
WithinThreshold(dist, threshold) == FloatLeq(Fin(dist), threshold)

\* ------------------------------------------------------------------
\* State
\* ------------------------------------------------------------------
VARIABLES
    pc,          \* each thread's position
    loc,         \* each thread's local variables
    pool,        \* DB_POOL: the queue of idle connections
    created,     \* connections created so far (handles are 1..created)
    closed,      \* connections closed by release_db_conn
    leaked,      \* connections an operation acquired and never released
    db,          \* the committed rows of the detections table, by id
    totalCache,  \* lru_cache of cached_total_detections: <<>> or <<total>>
    histCache,   \* lru_cache of cached_history: limit -> <<>> or <<rows>>
    settings,    \* the settings dict
    queue,       \* TASK_QUEUE
    unfinished,  \* TASK_QUEUE's count of unfinished tasks
    alive,       \* the worker threads that are running
    clock,       \* the UTC clock read by datetime.utcnow()
    appended,    \* ids of the rows whose record_detection has returned (ever)
    emitted,     \* ids of the rows sent as a 'detection' event
    jobs,        \* per submitted video job: "queued", "running", "done", "failed"
    runs,        \* per submitted video job: how many times a worker invoked it
    videosLeft,  \* the workload still to come: video uploads,
    photosLeft,  \*   photo uploads,
    failsLeft,   \*   operations that raise,
    readsLeft,   \*   calls of each cached read
    sub,         \* the socket client: its connection state and the events it received
    est          \* a call of estimate_distance_for_bbox: its arguments and its outcome

vars == <<pc, loc, pool, created, closed, leaked, db, totalCache, histCache,
          settings, queue, unfinished, alive, clock, appended, emitted, jobs, runs,
          videosLeft, photosLeft, failsLeft, readsLeft, sub, est>>

NoRow == [id |-> 0, ts |-> 0, obj_type |-> "", distance |-> 0, job |-> 0, i |-> 0]
NoLoc == [h |-> 0, ts |-> 0, base |-> 0, row |-> NoRow, job |-> 0, i |-> 0,
          a |-> FALSE, thr |-> NaN, notified |-> FALSE, res |-> <<>>, lim |-> 0, need |-> {},
          sawT |-> FALSE, sawF |-> FALSE]

\* The alert policy on one state s of the settings dict.
Policy(s, dist) == s.alerts_enabled /\ WithinThreshold(dist, s.threshold)

\* sawT and sawF remember, for a record whose alert condition is being
\* evaluated, whether the policy was true and whether it was false in some
\* state the settings had since the record's INSERT was committed; s is a
\* state the settings take.
Observe(l, s) ==
    [l EXCEPT !.sawT = @ \/ Policy(s, l.row.distance),
              !.sawF = @ \/ ~Policy(s, l.row.distance)]

ObserveAll(s) ==
    [t \in Threads |->
        IF t \in Appenders /\ pc[t] \in {"release", "clear", "eval_a", "eval_t"}
        THEN Observe(loc[t], s) ELSE loc[t]]

\* The socket client before it connects. old and before remember, for the
\* claims, the events emitted when it joined and the records appended when
\* handle_connect ran.
NoSub == [st |-> "out", inbox |-> <<>>, old |-> {}, before |-> {}]

\* No call of estimate_distance_for_bbox.
NoEstimate == [called |-> FALSE]

RECURSIVE SeqTo(_)
SeqTo(n) == IF n = 0 THEN <<>> ELSE Append(SeqTo(n - 1), n)

\* The table as an earlier run left it (CREATE TABLE IF NOT EXISTS keeps it).
PriorTable ==
    [k \in 1..PriorRows |->
        [id |-> k, ts |-> k, obj_type |-> "vehicle", distance |-> 300, job |-> 0, i |-> 0]]

\* _startup: init_db_pool has filled DB_POOL and created the empty table.
Boot ==
    /\ pc = [t \in Threads |-> "idle"]
    /\ loc = [t \in Threads |-> NoLoc]
    /\ pool = SeqTo(DB_POOL_MAX)
    /\ created = DB_POOL_MAX
    /\ closed = {}
    /\ leaked = {}
    /\ db = PriorTable
    /\ totalCache = <<>>
    /\ histCache = [l \in {SmallLimit, HistoryLimit} |-> <<>>]
    /\ settings = [threshold |-> Fin(InitialThreshold), alerts_enabled |-> TRUE]
    /\ queue = <<>>
    /\ unfinished = 0
    /\ alive = Workers
    /\ clock = PriorRows + 1
    /\ appended = 1..PriorRows
    /\ emitted = {}
    /\ jobs = <<>>
    /\ runs = <<>>
    /\ sub = NoSub

Workload(v, p, f, r) ==
    /\ videosLeft = v
    /\ photosLeft = p
    /\ failsLeft = f
    /\ readsLeft = [x \in Readers |-> r]
    /\ est = NoEstimate

Init == Boot /\ Workload(0, MaxPhotos, MaxFailures, MaxReads)
InitPolicy == Boot /\ Workload(PolicyVideos, PolicyPhotos, 0, 0)
InitJobs == Boot /\ Workload(JobsVideos, 0, 0, JobsReads)
InitWorkers == Boot /\ Workload(WorkersVideos, 0, WorkersFailures, 0)
InitQueue == Boot /\ Workload(QueueVideos, 0, QueueFailures, 0)
InitSubscribe == Boot /\ Workload(SubscribeVideos, 0, 0, 0)

\* ------------------------------------------------------------------
\* The connection pool
\* ------------------------------------------------------------------
\* Mutant of get_db_conn: reads the oldest idle connection without taking it
\* out of the queue.
get_db_conn_peek ==
    IF pool # <<>>
    THEN [conn |-> Head(pool), pool |-> pool, created |-> created]
    ELSE [conn |-> created + 1, pool |-> pool, created |-> created + 1]

\* Mutant of get_db_conn: on Empty no connection is created (conn = None).
get_db_conn_pooled_only ==
    IF pool # <<>>
    THEN [conn |-> Head(pool), pool |-> Tail(pool), created |-> created]
    ELSE [conn |-> 0, pool |-> pool, created |-> created]

\* get_db_conn: DB_POOL.get(timeout) hands out the oldest idle connection;
\* on Empty a new connection is created.
get_db_conn ==
    IF pool # <<>>
    THEN [conn |-> Head(pool), pool |-> Tail(pool), created |-> created]
    ELSE [conn |-> created + 1, pool |-> pool, created |-> created + 1]

\* Mutant of release_db_conn: DB_POOL without maxsize, put_nowait never Full.
release_db_conn_unbounded(conn) == [pool |-> Append(pool, conn), closed |-> closed]

\* release_db_conn: DB_POOL.put_nowait(conn); on Full the connection is closed.
release_db_conn(conn) ==
    IF Len(pool) < DB_POOL_MAX
    THEN [pool |-> Append(pool, conn), closed |-> closed]
    ELSE [pool |-> pool, closed |-> closed \cup {conn}]

\* The step of a thread t that calls get_db_conn and goes on at pc next.
Acquire(t, next) ==
    /\ loc' = [loc EXCEPT ![t].h = get_db_conn.conn]
    /\ pool' = get_db_conn.pool
    /\ created' = get_db_conn.created
    /\ pc' = [pc EXCEPT ![t] = next]

\* The step of a thread t that calls release_db_conn(conn) and goes on at pc next.
Release(t, next) ==
    /\ pool' = release_db_conn(loc[t].h).pool
    /\ closed' = release_db_conn(loc[t].h).closed
    /\ loc' = [loc EXCEPT ![t].h = 0]
    /\ pc' = [pc EXCEPT ![t] = next]

\* ------------------------------------------------------------------
\* The detections table
\* ------------------------------------------------------------------
Min(a, b) == IF a < b THEN a ELSE b

\* SELECT COUNT(*) FROM detections
CountQuery == Len(db)

\* SELECT ... FROM detections ORDER BY id DESC LIMIT limit
HistoryQuery(limit) ==
    [k \in 1..Min(limit, Len(db)) |-> db[Len(db) - k + 1]]

\* Mutant of WorkerOnError: no try/except around func(*args), the thread ends.
WorkerDies(w) == [pc |-> "dead", alive |-> alive \ {w}, unfinished |-> unfinished]

\* An exception leaves the operation: the connection it holds is not released.
\* A request ends with an error response. In a worker the try/except prints
\* the exception; the worker calls task_done() and is back at TASK_QUEUE.get().
WorkerOnError(w) == [pc |-> "idle", alive |-> alive, unfinished |-> unfinished - 1]

Raise(t) ==
    /\ failsLeft > 0
    /\ failsLeft' = failsLeft - 1
    /\ leaked' = leaked \cup {loc[t].h}
    /\ loc' = [loc EXCEPT ![t] = NoLoc]
    /\ IF t \in Workers
       THEN /\ pc' = [pc EXCEPT ![t] = WorkerOnError(t).pc]
            /\ alive' = WorkerOnError(t).alive
            /\ unfinished' = WorkerOnError(t).unfinished
            /\ jobs' = [jobs EXCEPT ![loc[t].job] = "failed"]
       ELSE /\ pc' = [pc EXCEPT ![t] = "idle"]
            /\ UNCHANGED <<alive, unfinished, jobs>>

\* ------------------------------------------------------------------
\* record_detection, run by a worker (for a frame) or by upload_photo
\* ------------------------------------------------------------------
\* ts = datetime.utcnow().isoformat(); conn = get_db_conn()
\* (the clock read touches nothing another thread reads before the INSERT,
\* so it is one step with the acquisition)
RecordBegin(t) ==
    /\ t \in Appenders
    /\ pc[t] = "begin"
    /\ loc' = [loc EXCEPT ![t].ts = clock, ![t].h = get_db_conn.conn]
    /\ clock' = clock + 1
    /\ pool' = get_db_conn.pool
    /\ created' = get_db_conn.created
    /\ pc' = [pc EXCEPT ![t] = "write"]
    /\ UNCHANGED <<sub, est, closed, leaked, db, totalCache, histCache, settings, queue, unfinished,
                   alive, appended, emitted, jobs, runs, videosLeft, photosLeft, failsLeft,
                   readsLeft>>

FrameHashOf(t) == IF t \in Workers THEN FrameHash(loc[t].base, loc[t].i) ELSE loc[t].base

\* c.execute("INSERT ..."); conn.commit(): AUTOINCREMENT gives the next id and
\* the row is durable. From the INSERT to the commit the connection holds
\* sqlite's write lock and no other connection sees the row, so the two
\* statements are one step.
NewRow(t) ==
    [id |-> Len(db) + 1, ts |-> loc[t].ts,
     obj_type |-> ObjType(FrameHashOf(t)),
     distance |-> Distance(FrameHashOf(t)),
     job |-> loc[t].job, i |-> loc[t].i]

RecordWrite(t) ==
    /\ t \in Appenders
    /\ pc[t] = "write"
    /\ loc' = [loc EXCEPT ![t] = Observe([@ EXCEPT !.row = NewRow(t)], settings)]
    /\ db' = Append(db, NewRow(t))
    /\ pc' = [pc EXCEPT ![t] = "release"]
    /\ UNCHANGED <<sub, est, pool, created, closed, leaked, totalCache, histCache, settings, queue,
                   unfinished, alive, clock, appended, emitted, jobs, runs, videosLeft,
                   photosLeft, failsLeft, readsLeft>>

\* The INSERT or the commit raises (database is locked after the busy
\* timeout, disk error, ...): nothing is written.
RecordWriteFail(t) ==
    /\ t \in Appenders
    /\ pc[t] = "write"
    /\ Raise(t)
    /\ UNCHANGED <<sub, est, pool, created, closed, db, totalCache, histCache, settings, queue, clock,
                   appended, emitted, runs, videosLeft, photosLeft, readsLeft>>

RecordRelease(t) ==
    /\ t \in Appenders
    /\ pc[t] = "release"
    /\ Release(t, "clear")
    /\ UNCHANGED <<sub, est, created, leaked, db, totalCache, histCache, settings, queue, unfinished,
                   alive, clock, appended, emitted, jobs, runs, videosLeft, photosLeft,
                   failsLeft, readsLeft>>

\* clear_caches(), then record_detection returns the detection dict.
clear_caches == [total |-> <<>>, hist |-> [l \in DOMAIN histCache |-> <<>>]]

RecordClear(t) ==
    /\ t \in Appenders
    /\ pc[t] = "clear"
    /\ totalCache' = clear_caches.total
    /\ histCache' = clear_caches.hist
    /\ appended' = appended \cup {loc[t].row.id}
    /\ pc' = [pc EXCEPT ![t] = "eval_a"]
    /\ UNCHANGED <<sub, est, loc, pool, created, closed, leaked, db, settings, queue, unfinished, alive,
                   clock, emitted, jobs, runs, videosLeft, photosLeft, failsLeft, readsLeft>>

\* ------------------------------------------------------------------
\* if settings["alerts_enabled"] and rec["distance"] <= settings["threshold"]:
\*     socketio.emit('detection', rec)
\* ------------------------------------------------------------------
\* Mutant of AfterEval: the job returns to the worker loop after the alert
\* condition, without the pause and the remaining iterations.
AfterEvalReturns(t) == IF t \in Workers THEN "idle" ELSE "respond"

AfterEval(t) == IF t \in Workers THEN "sleep" ELSE "respond"

\* The left operand: when it is false the threshold is not read.
EvalAlerts(t) ==
    /\ t \in Appenders
    /\ pc[t] = "eval_a"
    /\ loc' = [loc EXCEPT ![t].a = settings.alerts_enabled, ![t].notified = FALSE]
    /\ pc' = [pc EXCEPT ![t] = IF settings.alerts_enabled THEN "eval_t" ELSE AfterEval(t)]
    /\ UNCHANGED <<sub, est, pool, created, closed, leaked, db, totalCache, histCache, settings, queue,
                   unfinished, alive, clock, appended, emitted, jobs, runs, videosLeft,
                   photosLeft, failsLeft, readsLeft>>

\* socketio.emit('detection', rec): sent to every client that is in the
\* namespace at that moment; nothing is kept for clients that join later.
Broadcast(ev) ==
    IF sub.st \in {"joined", "connected"}
    THEN [sub EXCEPT !.inbox = Append(@, ev)]
    ELSE sub

DetectionEvent(row) == [type |-> "detection", id |-> row.id]

EvalThreshold(t) ==
    /\ t \in Appenders
    /\ pc[t] = "eval_t"
    /\ loc' = [loc EXCEPT ![t].thr = settings.threshold,
                          ![t].notified = WithinThreshold(loc[t].row.distance, settings.threshold)]
    /\ emitted' = IF WithinThreshold(loc[t].row.distance, settings.threshold)
                  THEN emitted \cup {loc[t].row.id} ELSE emitted
    /\ sub' = IF WithinThreshold(loc[t].row.distance, settings.threshold)
              THEN Broadcast(DetectionEvent(loc[t].row)) ELSE sub
    /\ pc' = [pc EXCEPT ![t] = AfterEval(t)]
    /\ UNCHANGED <<est, pool, created, closed, leaked, db, totalCache, histCache, settings, queue,
                   unfinished, alive, clock, appended, jobs, runs, videosLeft, photosLeft,
                   failsLeft, readsLeft>>

\* ------------------------------------------------------------------
\* worker: the loop of each background thread
\* ------------------------------------------------------------------
\* Mutant of TaskQueueGet: the item is read and stays in the queue.
TaskQueuePeek == [item |-> Head(queue), queue |-> queue]

\* TASK_QUEUE.get(): removes and returns the oldest item (blocks while empty).
TaskQueueGet == [item |-> Head(queue), queue |-> Tail(queue)]

\* func, args = TASK_QUEUE.get(); func(*args) starts simulate_video_processing
WorkerGet(w) ==
    /\ w \in Workers
    /\ w \in alive
    /\ pc[w] = "idle"
    /\ queue # <<>>
    /\ queue' = TaskQueueGet.queue
    /\ loc' = [loc EXCEPT ![w] = [NoLoc EXCEPT !.job = TaskQueueGet.item.id,
                                                !.base = TaskQueueGet.item.base]]
    /\ jobs' = [jobs EXCEPT ![TaskQueueGet.item.id] = "running"]
    /\ runs' = [runs EXCEPT ![TaskQueueGet.item.id] = @ + 1]
    /\ pc' = [pc EXCEPT ![w] = "begin"]
    /\ UNCHANGED <<sub, est, pool, created, closed, leaked, db, totalCache, histCache, settings,
                   unfinished, alive, clock, appended, emitted, videosLeft, photosLeft,
                   failsLeft, readsLeft>>

\* Mutant of MoreFrames: one iteration too many.
MoreFramesInclusive(i) == i + 1 <= VideoIterations

\* for i in range(VideoIterations): is there an iteration after iteration i
MoreFrames(i) == i + 1 < VideoIterations

\* time.sleep(2), then the next frame; after the last frame the job returns,
\* the worker calls task_done() and is back at TASK_QUEUE.get().
WorkerSleep(w) ==
    /\ w \in Workers
    /\ pc[w] = "sleep"
    /\ IF MoreFrames(loc[w].i)
       THEN /\ loc' = [loc EXCEPT ![w] = [NoLoc EXCEPT !.job = loc[w].job, !.base = loc[w].base,
                                                       !.i = loc[w].i + 1]]
            /\ pc' = [pc EXCEPT ![w] = "begin"]
            /\ UNCHANGED <<jobs, unfinished>>
       ELSE /\ loc' = [loc EXCEPT ![w] = NoLoc]
            /\ pc' = [pc EXCEPT ![w] = "idle"]
            /\ jobs' = [jobs EXCEPT ![loc[w].job] = "done"]
            /\ unfinished' = unfinished - 1
    /\ UNCHANGED <<sub, est, pool, created, closed, leaked, db, totalCache, histCache, settings, queue,
                   alive, clock, appended, emitted, runs, videosLeft, photosLeft, failsLeft,
                   readsLeft>>

\* ------------------------------------------------------------------
\* upload_photo (a request without a file returns 400 and changes nothing)
\* ------------------------------------------------------------------
PhotoStart(H) ==
    /\ pc[PhotoReq] = "idle"
    /\ photosLeft > 0
    /\ photosLeft' = photosLeft - 1
    /\ \E h \in H :
         loc' = [loc EXCEPT ![PhotoReq] = [NoLoc EXCEPT !.base = h]]
    /\ pc' = [pc EXCEPT ![PhotoReq] = "begin"]
    /\ UNCHANGED <<sub, est, pool, created, closed, leaked, db, totalCache, histCache, settings, queue,
                   unfinished, alive, clock, appended, emitted, jobs, runs, videosLeft,
                   failsLeft, readsLeft>>

\* return jsonify({"ok": True, "detection": det})
PhotoRespond ==
    /\ pc[PhotoReq] = "respond"
    /\ loc' = [loc EXCEPT ![PhotoReq] = NoLoc]
    /\ pc' = [pc EXCEPT ![PhotoReq] = "idle"]
    /\ UNCHANGED <<sub, est, pool, created, closed, leaked, db, totalCache, histCache, settings, queue,
                   unfinished, alive, clock, appended, emitted, jobs, runs, videosLeft,
                   photosLeft, failsLeft, readsLeft>>

\* ------------------------------------------------------------------
\* upload_video_feed
\* ------------------------------------------------------------------
\* Mutant of TaskQueueHasRoom: TASK_QUEUE = Queue(maxsize=BACKGROUND_WORKERS),
\* put waits while the queue is full.
TaskQueueBounded == Len(queue) < BACKGROUND_WORKERS

\* TASK_QUEUE = Queue(): no maxsize, so put never waits for room.
TaskQueueHasRoom == TRUE

\* TASK_QUEUE.put((simulate_video_processing, (path,)))
VideoPut ==
    /\ pc[VideoReq] = "idle"
    /\ videosLeft > 0
    /\ TaskQueueHasRoom
    /\ videosLeft' = videosLeft - 1
    /\ \E b \in VideoBases :
         queue' = Append(queue, [id |-> Len(jobs) + 1, base |-> b])
    /\ unfinished' = unfinished + 1
    /\ jobs' = Append(jobs, "queued")
    /\ runs' = Append(runs, 0)
    /\ loc' = [loc EXCEPT ![VideoReq].job = Len(jobs) + 1]
    /\ pc' = [pc EXCEPT ![VideoReq] = "respond"]
    /\ UNCHANGED <<sub, est, pool, created, closed, leaked, db, totalCache, histCache, settings, alive,
                   clock, appended, emitted, photosLeft, failsLeft, readsLeft>>

\* Mutant of VideoReturns: TASK_QUEUE.join() before the response.
VideoReturnsJoined == unfinished = 0

\* return jsonify({"ok": True, "message": ...}): no wait on the queue or the job
VideoReturns == TRUE

VideoRespond ==
    /\ pc[VideoReq] = "respond"
    /\ VideoReturns
    /\ loc' = [loc EXCEPT ![VideoReq] = NoLoc]
    /\ pc' = [pc EXCEPT ![VideoReq] = "idle"]
    /\ UNCHANGED <<sub, est, pool, created, closed, leaked, db, totalCache, histCache, settings, queue,
                   unfinished, alive, clock, appended, emitted, jobs, runs, videosLeft,
                   photosLeft, failsLeft, readsLeft>>

\* ------------------------------------------------------------------
\* stats -> cached_total_detections(), history -> cached_history(limit)
\* ------------------------------------------------------------------
\* The lru_cache wrapper looks the key up: a hit returns the stored value.
\* stats() calls cached_total_detections() (l = 0 here), history() calls
\* cached_history(50); need remembers the appends that had returned by then.
ReadCall(r, l) ==
    /\ r \in Readers
    /\ pc[r] = "idle"
    /\ readsLeft[r] > 0
    /\ readsLeft' = [readsLeft EXCEPT ![r] = @ - 1]
    /\ LET entry == IF r = StatsReq THEN totalCache ELSE histCache[l] IN
         /\ loc' = [loc EXCEPT ![r] = [NoLoc EXCEPT !.lim = l, !.need = appended,
                                                    !.res = entry]]
         /\ pc' = [pc EXCEPT ![r] = IF entry # <<>> THEN "respond" ELSE "c_get"]
    /\ UNCHANGED <<sub, est, pool, created, closed, leaked, db, totalCache, histCache, settings, queue,
                   unfinished, alive, clock, appended, emitted, jobs, runs, videosLeft,
                   photosLeft, failsLeft>>

ReadGet(r) ==
    /\ r \in Readers
    /\ pc[r] = "c_get"
    /\ Acquire(r, "select")
    /\ UNCHANGED <<sub, est, closed, leaked, db, totalCache, histCache, settings, queue, unfinished,
                   alive, clock, appended, emitted, jobs, runs, videosLeft, photosLeft,
                   failsLeft, readsLeft>>

\* c.execute("SELECT ...") and the fetch
ReadSelect(r) ==
    /\ r \in Readers
    /\ pc[r] = "select"
    /\ loc' = [loc EXCEPT ![r].res =
                 <<IF r = StatsReq THEN CountQuery ELSE HistoryQuery(loc[r].lim)>>]
    /\ pc' = [pc EXCEPT ![r] = "c_release"]
    /\ UNCHANGED <<sub, est, pool, created, closed, leaked, db, totalCache, histCache, settings, queue,
                   unfinished, alive, clock, appended, emitted, jobs, runs, videosLeft,
                   photosLeft, failsLeft, readsLeft>>

\* The SELECT raises (database is locked, ...).
ReadSelectFail(r) ==
    /\ r \in Readers
    /\ pc[r] = "select"
    /\ Raise(r)
    /\ UNCHANGED <<sub, est, pool, created, closed, db, totalCache, histCache, settings, queue, clock,
                   appended, emitted, runs, videosLeft, photosLeft, readsLeft>>

ReadRelease(r) ==
    /\ r \in Readers
    /\ pc[r] = "c_release"
    /\ Release(r, "store")
    /\ UNCHANGED <<sub, est, created, leaked, db, totalCache, histCache, settings, queue, unfinished,
                   alive, clock, appended, emitted, jobs, runs, videosLeft, photosLeft,
                   failsLeft, readsLeft>>

\* The wrapper stores the computed value under the key, unless the key is
\* in the cache by now, and returns the computed value.
CacheStore(entry, res) == IF entry = <<>> THEN res ELSE entry

ReadStore(r) ==
    /\ r \in Readers
    /\ pc[r] = "store"
    /\ IF r = StatsReq
       THEN /\ totalCache' = CacheStore(totalCache, loc[r].res)
            /\ histCache' = histCache
       ELSE /\ histCache' = [histCache EXCEPT ![loc[r].lim] = CacheStore(@, loc[r].res)]
            /\ totalCache' = totalCache
    /\ pc' = [pc EXCEPT ![r] = "respond"]
    /\ UNCHANGED <<sub, est, loc, pool, created, closed, leaked, db, settings, queue, unfinished, alive,
                   clock, appended, emitted, jobs, runs, videosLeft, photosLeft, failsLeft,
                   readsLeft>>

\* return jsonify(...) of the value
ReadRespond(r) ==
    /\ r \in Readers
    /\ pc[r] = "respond"
    /\ loc' = [loc EXCEPT ![r] = NoLoc]
    /\ pc' = [pc EXCEPT ![r] = "idle"]
    /\ UNCHANGED <<sub, est, pool, created, closed, leaked, db, totalCache, histCache, settings, queue,
                   unfinished, alive, clock, appended, emitted, jobs, runs, videosLeft,
                   photosLeft, failsLeft, readsLeft>>

\* ------------------------------------------------------------------
\* set_threshold and toggle_alert
\* ------------------------------------------------------------------
\* t = float(data.get("threshold")); settings["threshold"] = t; an exception
\* of float() gives the 400 response.
set_threshold(x) ==
    IF PyFloat(x).ok
    THEN [settings EXCEPT !.threshold = PyFloat(x).f]
    ELSE settings

SetThreshold ==
    /\ \E x \in ThresholdInputs :
          /\ settings' = set_threshold(x)
          /\ loc' = ObserveAll(set_threshold(x))
    /\ UNCHANGED <<sub, est, pc, pool, created, closed, leaked, db, totalCache, histCache, queue,
                   unfinished, alive, clock, appended, emitted, jobs, runs, videosLeft,
                   photosLeft, failsLeft, readsLeft>>

toggle_alert(x) == [settings EXCEPT !.alerts_enabled = PyBool(x)]

ToggleAlert ==
    /\ \E x \in EnabledInputs :
          /\ settings' = toggle_alert(x)
          /\ loc' = ObserveAll(toggle_alert(x))
    /\ UNCHANGED <<sub, est, pc, pool, created, closed, leaked, db, totalCache, histCache, queue,
                   unfinished, alive, clock, appended, emitted, jobs, runs, videosLeft,
                   photosLeft, failsLeft, readsLeft>>

\* ------------------------------------------------------------------
\* The socket client and handle_connect
\* ------------------------------------------------------------------
\* A client connects: socketio enters it into the namespace, from where on
\* broadcast events reach it, and then dispatches the 'connect' handler.
SubscriberJoin ==
    /\ sub.st = "out"
    /\ sub' = [sub EXCEPT !.st = "joined", !.old = emitted]
    /\ UNCHANGED <<est, pc, loc, pool, created, closed, leaked, db, totalCache, histCache,
                   settings, queue, unfinished, alive, clock, appended, emitted, jobs, runs,
                   videosLeft, photosLeft, failsLeft, readsLeft>>

SettingsEvent == [type |-> "settings", val |-> settings]

\* Mutant of handle_connect: the last detection is replayed to the new client.
handle_connect_replay ==
    IF emitted = {} THEN <<SettingsEvent>>
    ELSE <<SettingsEvent,
           [type |-> "detection", id |-> CHOOSE x \in emitted : \A y \in emitted : y <= x]>>

\* handle_connect: emit('settings', settings) to the connecting client
handle_connect == <<SettingsEvent>>

HandleConnect ==
    /\ sub.st = "joined"
    /\ sub' = [sub EXCEPT !.st = "connected", !.inbox = @ \o handle_connect,
                          !.before = appended]
    /\ UNCHANGED <<est, pc, loc, pool, created, closed, leaked, db, totalCache, histCache,
                   settings, queue, unfinished, alive, clock, appended, emitted, jobs, runs,
                   videosLeft, photosLeft, failsLeft, readsLeft>>

\* ------------------------------------------------------------------
\* distance_estimation.py and the distance methods
\* ------------------------------------------------------------------
\* Lengths are in hundredths of a meter, pixel sizes and disparities in
\* pixels; a float division is the integer division of the scaled numbers.
\* Python values: None, a number, a dict (a missing key reads as None with
\* dict.get), an array.
PyNone == [ty |-> "none"]
PyNum(v) == [ty |-> "num", v |-> v]
CameraDict(f, c) == [ty |-> "dict", focal_length_px |-> f, bbox_coeffs |-> c]
StereoDict(f, b) == [ty |-> "dict", focal_length_px |-> f, baseline_m |-> b]

\* if camera_params: None and the empty dict are false
Truthy(d) ==
    /\ d.ty = "dict"
    /\ ~(d.focal_length_px.ty = "none" /\ d.bbox_coeffs.ty = "none")

\* The outcome of a call: a returned float or a raised exception.
Return(f) == [kind |-> "return", f |-> f, exc |-> ""]
Raises(e) == [kind |-> "raise", f |-> NaN, exc |-> e]

\* pinhole_method.DEFAULT_OBJECT_HEIGHTS, with .get(object_class, person)
DEFAULT_OBJECT_HEIGHTS(object_class) ==
    CASE object_class = "person" -> 170
      [] object_class = "car" -> 150
      [] object_class = "truck" -> 300
      [] object_class = "motorbike" -> 110
      [] OTHER -> 170

\* pinhole_method.estimate_distance
pinhole_estimate(bbox_height_px, object_class, camera_params) ==
    IF bbox_height_px <= 0 THEN Return(PosInf)
    ELSE IF camera_params.ty = "none" THEN Raises("ValueError")
    ELSE IF camera_params.focal_length_px.ty = "none" THEN Raises("ValueError")
    ELSE Return(Fin((DEFAULT_OBJECT_HEIGHTS(object_class) * camera_params.focal_length_px.v)
                       \div bbox_height_px))

\* bbox_pixel_method.DEFAULT_COEFFS = (500.0, 0.0)
DEFAULT_COEFFS == <<50000, 0>>

\* bbox_pixel_method.estimate_distance: a / h + b
bbox_estimate(bbox_height_px, coeffs) ==
    IF bbox_height_px <= 0 THEN Return(PosInf)
    ELSE Return(Fin((coeffs[1] \div bbox_height_px) + coeffs[2]))

\* stereo_depth.disparity_to_depth; disp2 is twice the disparity (a median
\* of an even number of pixels can be a half)
disparity_to_depth(disp2, focal_length_px, baseline_m) ==
    IF disp2 <= 0 THEN Return(PosInf)
    ELSE IF focal_length_px.ty = "none" \/ baseline_m.ty = "none" THEN Raises("TypeError")
    ELSE Return(Fin((2 * focal_length_px.v * baseline_m.v) \div disp2))

\* The bounding box clipped to an array of h rows and w columns.
Max(a, b) == IF a > b THEN a ELSE b
ClipBox(bbox, h, w) ==
    [x1 |-> Max(0, bbox[1]), y1 |-> Max(0, bbox[2]),
     x2 |-> Min(w - 1, bbox[3]), y2 |-> Min(h - 1, bbox[4])]

\* arr[y1:y2+1, x1:x2+1]: the cells of the crop
Crop(box) == (box.y1..box.y2) \X (box.x1..box.x2)

\* The k-th smallest value of arr over the cells.
Kth(arr, cells, k) ==
    CHOOSE v \in {arr[c] : c \in cells} :
       /\ Cardinality({c \in cells : arr[c] < v}) < k
       /\ Cardinality({c \in cells : arr[c] <= v}) >= k

\* Twice np.median of arr over the cells.
Median2(arr, cells) ==
    LET n == Cardinality(cells) IN
    IF n % 2 = 1 THEN 2 * Kth(arr, cells, (n + 1) \div 2)
    ELSE Kth(arr, cells, n \div 2) + Kth(arr, cells, (n \div 2) + 1)

\* stereo_depth.estimate_bbox_depth with method="median"
estimate_bbox_depth(disparity_map, bbox, focal_length_px, baseline_m) ==
    LET box == ClipBox(bbox, disparity_map.h, disparity_map.w)
        valid == {c \in Crop(box) : disparity_map.a[c] > 0}
    IN IF box.x2 <= box.x1 \/ box.y2 <= box.y1 THEN Return(PosInf)
       ELSE IF valid = {} THEN Return(PosInf)
       ELSE disparity_to_depth(Median2(disparity_map.a, valid), focal_length_px, baseline_m)

\* midas_depth.MiDaSDepth.median_depth_in_bbox
median_depth_in_bbox(depth_map, bbox) ==
    LET box == ClipBox(bbox, depth_map.h, depth_map.w) IN
    IF box.x2 <= box.x1 \/ box.y2 <= box.y1 THEN Return(NaN)
    ELSE Return(Fin(Median2(depth_map.a, Crop(box)) \div 2))

\* MiDaSDepth(device=camera_params.get("device", "cpu")) and model.predict(image):
\* the constructor raises RuntimeError without the MiDaS packages, and
\* predict raises NotImplementedError.
MiDaSPredict(camera_params, installed) ==
    IF camera_params.ty = "none" THEN Raises("AttributeError")
    ELSE IF ~installed THEN Raises("RuntimeError")
    ELSE Raises("NotImplementedError")

\* distance_estimation.estimate_distance_for_bbox
estimate_distance_for_bbox(method, bbox, class_name, camera_params, bbox_height_px, disparity_map, stereo_params, installed) ==
    LET height == IF bbox_height_px.ty = "none" THEN Max(1, bbox[4] - bbox[2])
                  ELSE bbox_height_px.v
    IN CASE method = "pinhole" -> pinhole_estimate(height, class_name, camera_params)
         [] method = "bbox" ->
              IF Truthy(camera_params) /\ camera_params.bbox_coeffs.ty # "none"
              THEN bbox_estimate(height, camera_params.bbox_coeffs.v)
              ELSE bbox_estimate(height, DEFAULT_COEFFS)
         [] method = "stereo" ->
              IF disparity_map.ty = "none" \/ stereo_params.ty = "none" THEN Return(PosInf)
              ELSE estimate_bbox_depth(disparity_map, bbox, stereo_params.focal_length_px,
                                       stereo_params.baseline_m)
         [] method = "midas" ->
              IF MiDaSPredict(camera_params, installed).kind = "raise" THEN Return(PosInf)
              ELSE median_depth_in_bbox(disparity_map, bbox)
         [] OTHER -> Raises("ValueError")

\* The arguments of the calls that are checked.
Methods == {"pinhole", "bbox", "stereo", "midas", "lidar"}
Boxes == {<<0, 0, 2, 2>>, <<1, 1, 1, 1>>, <<0, 2, 2, 0>>}
ClassNames == {"person", "truck", "dog"}
CameraParams ==
    {PyNone, CameraDict(PyNone, PyNone), CameraDict(PyNum(1000), PyNone),
     CameraDict(PyNum(1000), [ty |-> "coeffs", v |-> <<40000, 50>>])}
Heights == {PyNone, PyNum(0), PyNum(200)}
Array(f) == [ty |-> "array", h |-> MapSize, w |-> MapSize,
             a |-> [c \in (0..(MapSize - 1)) \X (0..(MapSize - 1)) |-> f[c]]]
DisparityMaps ==
    {PyNone,
     Array([c \in (0..(MapSize - 1)) \X (0..(MapSize - 1)) |-> 0]),
     Array([c \in (0..(MapSize - 1)) \X (0..(MapSize - 1)) |-> 20 * (c[1] + c[2])])}
StereoParams ==
    {PyNone, StereoDict(PyNone, PyNum(12)), StereoDict(PyNum(1200), PyNum(12))}

EstimateCalls ==
    [called : {FALSE}, method : Methods, bbox : Boxes, class_name : ClassNames,
     camera_params : CameraParams, bbox_height_px : Heights,
     disparity_map : DisparityMaps, stereo_params : StereoParams,
     installed : BOOLEAN, out : {Return(NaN)}]

\* The server state plays no part in a call; no request arrives.
InitEstimate ==
    /\ Boot
    /\ videosLeft = 0
    /\ photosLeft = 0
    /\ failsLeft = 0
    /\ readsLeft = [x \in Readers |-> 0]
    /\ est \in EstimateCalls

\* The call is made and ends.
Estimate ==
    /\ ~est.called
    /\ est' = [est EXCEPT !.called = TRUE,
                 !.out = estimate_distance_for_bbox(est.method, est.bbox, est.class_name,
                            est.camera_params, est.bbox_height_px, est.disparity_map,
                            est.stereo_params, est.installed)]
    /\ UNCHANGED <<sub, pc, loc, pool, created, closed, leaked, db, totalCache, histCache,
                   settings, queue, unfinished, alive, clock, appended, emitted, jobs, runs,
                   videosLeft, photosLeft, failsLeft, readsLeft>>

\* ------------------------------------------------------------------
\* Specifications
\* ------------------------------------------------------------------
AppendStep(t) ==
    \/ RecordBegin(t)
    \/ RecordWrite(t)
    \/ RecordRelease(t)
    \/ RecordClear(t)
    \/ EvalAlerts(t)
    \/ EvalThreshold(t)

WorkerStep(w) ==
    \/ WorkerGet(w)
    \/ AppendStep(w)
    \/ WorkerSleep(w)

PhotoStep(H) ==
    \/ PhotoStart(H)
    \/ AppendStep(PhotoReq)
    \/ PhotoRespond

\* stats() and history()
ReadStep(r) ==
    \/ ReadCall(r, IF r = StatsReq THEN 0 ELSE HistoryLimit)
    \/ ReadGet(r)
    \/ ReadSelect(r)
    \/ ReadRelease(r)
    \/ ReadStore(r)
    \/ ReadRespond(r)

\* cached_history called with a small limit
SmallHistoryCall == ReadCall(HistReq, SmallLimit)

\* Photo uploads, stats() and history(), with operations that raise: the
\* store, the caches and the pool.
Next ==
    \/ PhotoStep({20})
    \/ RecordWriteFail(PhotoReq)
    \/ \E r \in Readers : ReadStep(r)
    \/ \E r \in Readers : ReadSelectFail(r)
    \/ SmallHistoryCall

Spec == Init /\ [][Next]_vars

\* Uploads and settings requests: the alert policy.
NextPolicy ==
    \/ \E w \in Workers : WorkerStep(w)
    \/ PhotoStep(PhotoHashes)
    \/ VideoPut
    \/ VideoRespond
    \/ SetThreshold
    \/ ToggleAlert

SpecPolicy == InitPolicy /\ [][NextPolicy]_vars

\* A video upload, the workers and history(), every thread scheduled fairly.
NextJobs ==
    \/ \E w \in Workers : WorkerStep(w)
    \/ VideoPut
    \/ VideoRespond
    \/ ReadStep(HistReq)

FairJobs ==
    /\ InitJobs
    /\ [][NextJobs]_vars
    /\ \A w \in Workers : WF_vars(WorkerStep(w))
    /\ WF_vars(VideoRespond)
    /\ WF_vars(ReadStep(HistReq))

\* Video uploads and the workers, with operations that raise.
NextWorkers ==
    \/ \E w \in Workers : WorkerStep(w)
    \/ \E w \in Workers : RecordWriteFail(w)
    \/ VideoPut
    \/ VideoRespond

FairWorkers ==
    /\ InitWorkers
    /\ [][NextWorkers]_vars
    /\ \A w \in Workers : WF_vars(WorkerStep(w))
    /\ WF_vars(VideoRespond)

\* More video uploads than workers, with operations that raise.
SpecQueue == InitQueue /\ [][NextWorkers]_vars

\* A video upload, settings requests and a socket client that connects.
NextSubscribe ==
    \/ \E w \in Workers : WorkerStep(w)
    \/ VideoPut
    \/ VideoRespond
    \/ SetThreshold
    \/ ToggleAlert
    \/ SubscriberJoin
    \/ HandleConnect

SpecSubscribe == InitSubscribe /\ [][NextSubscribe]_vars

\* One call of estimate_distance_for_bbox, over the argument sets.
SpecEstimate == InitEstimate /\ [][Estimate]_vars

\* ------------------------------------------------------------------
\* Claims
\* ------------------------------------------------------------------
Range(f) == {f[k] : k \in DOMAIN f}
Holders(h) == {t \in Threads : loc[t].h = h}
RowIds(rows) == {rows[k].id : k \in DOMAIN rows}

\* C1: once record_detection has returned for a record, every later call of
\* cached_total_detections or cached_history returns a value that includes
\* it: the count a call returns is at least the number of appends that had
\* returned when the call began, and the history a call returns holds each
\* of those records unless it is filled up to the limit with newer ones.
C1_NoStaleRead ==
    /\ pc[StatsReq] = "respond" =>
         loc[StatsReq].res[1] >= Cardinality(loc[StatsReq].need)
    /\ pc[HistReq] = "respond" =>
         \A id \in loc[HistReq].need :
            \/ id \in RowIds(loc[HistReq].res[1])
            \/ /\ Len(loc[HistReq].res[1]) = loc[HistReq].lim
               /\ \A k \in DOMAIN loc[HistReq].res[1] : loc[HistReq].res[1][k].id > id

\* C2: no connection is held by two callers at the same time, and no
\* connection is both in DB_POOL and held by a caller.
C2_HandleExclusive ==
    \A t \in Threads :
       loc[t].h # 0 =>
          /\ Holders(loc[t].h) = {t}
          /\ loc[t].h \notin Range(pool)

\* Three operations hold connections at once, one of them created because
\* the pool was empty.
C2_Witness ==
    /\ Cardinality({t \in Threads : loc[t].h # 0}) = 3
    /\ \E t \in Threads : loc[t].h > DB_POOL_MAX

\* C3: every connection an operation acquired has been passed to
\* release_db_conn when the operation ends, also when it ends by a failure:
\* a connection that is neither in the pool nor closed is held by a running
\* operation.
C3_ReleasedOnEveryExit ==
    \A h \in 1..created :
       \/ h \in Range(pool)
       \/ h \in closed
       \/ Holders(h) # {}

\* C4: after a successful append a 'detection' event is emitted for the
\* record iff the evaluation read alerts_enabled true and the record's
\* distance is <= the threshold it read, in upload_photo and in each frame
\* of simulate_video_processing; no event is emitted for a record that was
\* not appended; at threshold 2.0 the distances 1.5 and 2.0 notify and 2.01
\* does not.
C4_AlertPolicy ==
    /\ \A t \in Appenders :
          pc[t] \in {"sleep", "respond"} =>
             (loc[t].row.id \in emitted <=>
                /\ loc[t].a
                /\ \/ loc[t].thr.k = "inf"
                   \/ loc[t].thr.k = "fin" /\ loc[t].row.distance <= loc[t].thr.v)
    /\ emitted \subseteq appended
    /\ WithinThreshold(150, Fin(200))
    /\ WithinThreshold(200, Fin(200))
    /\ ~WithinThreshold(201, Fin(200))

\* A frame at exactly the threshold (2.0 m at threshold 2.0) was notified,
\* and a photo above it (2.05 m) was evaluated with alerts enabled and was not.
C4_Witness ==
    /\ \E w \in Workers :
          /\ pc[w] = "sleep"
          /\ loc[w].row.distance = 200
          /\ loc[w].thr = Fin(200)
          /\ loc[w].row.id \in emitted
    /\ pc[PhotoReq] = "respond"
    /\ loc[PhotoReq].a
    /\ loc[PhotoReq].thr = Fin(200)
    /\ loc[PhotoReq].row.distance = 205
    /\ loc[PhotoReq].row.id \notin emitted

\* C5: set_threshold accepts only a finite number, so the threshold is a
\* finite number in every reachable state.
C5_ThresholdFinite == settings.threshold.k = "fin"

\* What history() returns when called now: the cached tuple, or the query.
HistoryView ==
    IF histCache[HistoryLimit] # <<>> THEN histCache[HistoryLimit][1]
    ELSE HistoryQuery(HistoryLimit)

RowsOfJob(rows, j) == {k \in DOMAIN rows : rows[k].job = j}
JobState(j) == IF j \in DOMAIN jobs THEN jobs[j] ELSE "none"

\* C6 as claimed: when upload_video_feed is about to return, none of the
\* records of the job it submitted is visible through history.
C6_ReturnsBeforeVisible ==
    pc[VideoReq] = "respond" => RowsOfJob(HistoryView, loc[VideoReq].job) = {}

\* C6 as amended: upload_video_feed returns without waiting for the job. No
\* record of a job exists before the job was put on TASK_QUEUE and taken by
\* a worker, and the handler's return is never blocked, whatever the state
\* of the queue, the workers and the job.
C6_ReturnsWithoutWaiting ==
    /\ \A k \in DOMAIN db :
          db[k].job # 0 => db[k].job <= Len(jobs) /\ jobs[db[k].job] # "queued"
    /\ pc[VideoReq] = "respond" => ENABLED VideoRespond

\* The handler is about to return while a worker has already appended a
\* record of the job.
C6_Witness ==
    /\ pc[VideoReq] = "respond"
    /\ RowsOfJob(db, loc[VideoReq].job) # {}

\* C7: every job put on TASK_QUEUE is eventually run to its end, and all the
\* records of a video job whose appends succeed eventually become visible
\* through history.
C7_EventuallyVisible ==
    \A j \in 1..JobsVideos :
       (Len(jobs) >= j) ~>
          (/\ JobState(j) = "done"
           /\ Cardinality(RowsOfJob(HistoryView, j)) = VideoIterations)

\* The part of C7 that does not read the cache: every job is run to its end.
JobsComplete ==
    \A j \in 1..JobsVideos :
       (Len(jobs) >= j) ~>
          (JobState(j) = "done" /\ Cardinality(RowsOfJob(db, j)) = VideoIterations)

\* C8: when a job raises, the worker that ran it stays alive and is back at
\* TASK_QUEUE.get(); every worker thread stays alive; no job is invoked
\* twice; every job put on the queue, before or after the failing one, is
\* run to its end, and a job that did not raise has appended all its records.
C8_FailureIsolation ==
    /\ [](alive = Workers)
    /\ [](\A j \in DOMAIN jobs :
            /\ runs[j] <= 1
            /\ jobs[j] = "done" => Cardinality(RowsOfJob(db, j)) = VideoIterations
            /\ jobs[j] = "failed" =>
                  /\ \A w \in Workers : loc[w].job # j
                  /\ \A k \in DOMAIN queue : queue[k].id # j)
    /\ [][\A w \in Workers :
            (JobState(loc[w].job) = "running" /\ jobs'[loc[w].job] = "failed")
               => pc'[w] = "idle" /\ w \in alive']_vars
    /\ \A j \in 1..WorkersVideos :
          (Len(jobs) >= j) ~> (JobState(j) \in {"done", "failed"})

\* The first job has failed and the second, run after it, is done.
C8_Witness ==
    /\ Len(jobs) >= 2
    /\ jobs[1] = "failed"
    /\ jobs[2] = "done"

\* C9: after N successful record_detection calls have all returned, the
\* value cached_total_detections returns is the count before them plus N.
C9_CountTracksAppends ==
    (/\ pc[StatsReq] = "respond"
     /\ Len(db) = Cardinality(loc[StatsReq].need))
    => loc[StatsReq].res[1] =
          PriorRows + Cardinality(loc[StatsReq].need \ (1..PriorRows))

\* C10: cached_history(limit), called after the appends have returned,
\* returns the min(limit, count) rows appended last, most recent first.
C10_RecentHistory ==
    (/\ pc[HistReq] = "respond"
     /\ Len(db) = Cardinality(loc[HistReq].need))
    => /\ Len(loc[HistReq].res[1]) = Min(loc[HistReq].lim, Len(db))
       /\ \A k \in DOMAIN loc[HistReq].res[1] :
             loc[HistReq].res[1][k].id = Len(db) - k + 1

\* The appends record_detection has committed since the process started.
Committed == {k \in DOMAIN db : k > PriorRows}

\* C11: every record_detection call ends with the record durable and both
\* caches cleared, or with nothing persisted and no clear_caches: a durable
\* record whose call has not yet cleared the caches belongs to a call still
\* running, nothing is cleared for a record that is not in the table, and
\* once the call has ended no cache holds an entry computed before the
\* record.
C11_AllOrNothing ==
    /\ appended \subseteq DOMAIN db
    /\ \A id \in Committed \ appended :
          \E t \in Appenders : pc[t] \in {"release", "clear"} /\ loc[t].row.id = id
    /\ \A id \in appended :
          /\ totalCache # <<>> => totalCache[1] >= id
          /\ \A l \in DOMAIN histCache :
                histCache[l] # <<>> =>
                   \/ id \in RowIds(histCache[l][1])
                   \/ /\ Len(histCache[l][1]) = l
                      /\ \A k \in DOMAIN histCache[l][1] : histCache[l][1][k].id > id

\* C12: get_db_conn always returns a connection: the acquiring step of an
\* operation is enabled whatever the pool holds, the connection an operation
\* works with is one that was created, and with DB_POOL empty get_db_conn
\* returns a connection that did not exist before.
C12_OverflowAllocation ==
    /\ \A t \in Appenders : pc[t] = "begin" => ENABLED RecordBegin(t)
    /\ \A r \in Readers : pc[r] = "c_get" => ENABLED ReadGet(r)
    /\ \A t \in Threads :
          pc[t] \in {"write", "release", "select", "c_release"} => loc[t].h \in 1..created
    /\ pool = <<>> =>
          /\ get_db_conn.conn = created + 1
          /\ get_db_conn.created = created + 1
          /\ get_db_conn.pool = <<>>

\* An operation works with a connection created for it while DB_POOL is
\* empty and every pooled connection is held or was lost.
C12_Witness ==
    /\ pool = <<>>
    /\ \E t \in Threads : pc[t] \in {"write", "select"} /\ loc[t].h > DB_POOL_MAX

\* C13: DB_POOL never holds more than DB_POOL_MAX connections and holds no
\* connection twice; release_db_conn puts the connection back when there is
\* room and closes it otherwise; a closed connection is not in the pool and
\* is not held by any operation.
C13_BoundedPool ==
    /\ Len(pool) <= DB_POOL_MAX
    /\ Cardinality(Range(pool)) = Len(pool)
    /\ closed \cap Range(pool) = {}
    /\ \A h \in closed : Holders(h) = {}
    /\ \A t \in Threads :
          pc[t] \in {"release", "c_release"} =>
             IF Len(pool) < DB_POOL_MAX
             THEN /\ release_db_conn(loc[t].h).pool = Append(pool, loc[t].h)
                  /\ release_db_conn(loc[t].h).closed = closed
             ELSE /\ release_db_conn(loc[t].h).pool = pool
                  /\ release_db_conn(loc[t].h).closed = closed \cup {loc[t].h}

\* A release found DB_POOL full and closed its connection.
C13_Witness ==
    /\ closed # {}
    /\ Len(pool) = DB_POOL_MAX

\* C14: the put on TASK_QUEUE in upload_video_feed never waits: whenever a
\* video upload has arrived at the put, the put can be taken, whatever the
\* workers are doing and however many jobs are queued.
C14_NonBlockingPut ==
    (pc[VideoReq] = "idle" /\ videosLeft > 0) => ENABLED VideoPut

\* A job was put while every worker was in the pause of a running job.
C14_Witness ==
    /\ pc[VideoReq] = "respond"
    /\ \A w \in Workers : pc[w] = "sleep"
    /\ queue # <<>>
    /\ queue[Len(queue)].id = loc[VideoReq].job

InQueue(j) == {k \in DOMAIN queue : queue[k].id = j}
RunningOn(j) == {w \in Workers : loc[w].job = j}

\* C17: every job put on TASK_QUEUE is in the queue exactly once until one
\* worker takes it; from then on it is out of the queue, was invoked exactly
\* once, and is held by exactly one worker until it has ended.
C17_ExactlyOnce ==
    \A j \in DOMAIN jobs :
       /\ jobs[j] \in {"queued", "running", "done", "failed"}
       /\ jobs[j] = "queued" =>
             Cardinality(InQueue(j)) = 1 /\ RunningOn(j) = {} /\ runs[j] = 0
       /\ jobs[j] = "running" =>
             InQueue(j) = {} /\ Cardinality(RunningOn(j)) = 1 /\ runs[j] = 1
       /\ jobs[j] \in {"done", "failed"} =>
             InQueue(j) = {} /\ RunningOn(j) = {} /\ runs[j] = 1

\* Three jobs were shared out between the two workers and have all ended.
C17_Witness ==
    /\ Len(jobs) = QueueVideos
    /\ \A j \in DOMAIN jobs : jobs[j] \in {"done", "failed"}
    /\ queue = <<>>

\* C18: a worker that is not waiting at TASK_QUEUE.get() is running exactly
\* one job, so at most BACKGROUND_WORKERS jobs are in execution; a worker
\* keeps its job until the job has ended, and takes a job only while it has
\* none.
C18_OneJobPerWorker ==
    /\ [](/\ Cardinality({j \in DOMAIN jobs : jobs[j] = "running"}) <= BACKGROUND_WORKERS
          /\ \A w \in Workers :
                IF pc[w] = "idle"
                THEN loc[w].job = 0
                ELSE JobState(loc[w].job) = "running")
    /\ [][\A w \in Workers :
            /\ loc[w].job # 0 =>
                  \/ loc'[w].job = loc[w].job
                  \/ loc'[w].job = 0 /\ jobs'[loc[w].job] \in {"done", "failed"}
            /\ (loc[w].job = 0 /\ loc'[w].job # 0) =>
                  pc[w] = "idle" /\ jobs[loc'[w].job] = "queued"]_vars

\* Every worker is in the pause of a job while another job waits in the queue.
C18_Witness ==
    /\ Cardinality({j \in DOMAIN jobs : jobs[j] = "running"}) = BACKGROUND_WORKERS
    /\ \A w \in Workers : pc[w] = "sleep" /\ loc[w].i = 0
    /\ queue # <<>>

\* The iterations of job j that have a row in the table.
FramesOf(j) == {db[k].i : k \in RowsOfJob(db, j)}
RowOfFrame(j, i) == CHOOSE k \in RowsOfJob(db, j) : db[k].i = i

\* C19: a video job runs iterations 0..VideoIterations-1 in order and
\* appends one record per iteration: while iteration i runs, the job's
\* records are those of the iterations before i, all of them appended and
\* invalidated, plus the record of i once its INSERT is done; that record
\* counts as appended only after clear_caches and is notified only after
\* the evaluation; the job has at most VideoIterations records, all of them
\* when it is done; a job whose append failed has the records of the
\* iterations before the failing one and gets no more records.
C19_IterationOrder ==
    /\ [](\A w \in Workers :
             loc[w].job # 0 =>
                /\ loc[w].i \in 0..(VideoIterations - 1)
                /\ FramesOf(loc[w].job) =
                      (0..(loc[w].i - 1)) \cup
                      (IF pc[w] \in {"release", "clear", "eval_a", "eval_t", "sleep"}
                       THEN {loc[w].i} ELSE {})
                /\ \A i \in 0..(loc[w].i - 1) : RowOfFrame(loc[w].job, i) \in appended
                /\ pc[w] \in {"release", "clear"} =>
                      /\ loc[w].row.id \notin appended
                      /\ loc[w].row.id \notin emitted
                /\ pc[w] \in {"eval_a", "eval_t"} =>
                      /\ loc[w].row.id \in appended
                      /\ loc[w].row.id \notin emitted
                /\ pc[w] = "sleep" => loc[w].row.id \in appended)
    /\ [](\A j \in DOMAIN jobs :
             /\ Cardinality(RowsOfJob(db, j)) = Cardinality(FramesOf(j))
             /\ Cardinality(RowsOfJob(db, j)) <= VideoIterations
             /\ jobs[j] = "queued" => RowsOfJob(db, j) = {}
             /\ jobs[j] = "done" => FramesOf(j) = 0..(VideoIterations - 1)
             /\ jobs[j] = "failed" =>
                   /\ Cardinality(RowsOfJob(db, j)) < VideoIterations
                   /\ FramesOf(j) = 0..(Cardinality(RowsOfJob(db, j)) - 1)
                   /\ \A k \in RowsOfJob(db, j) : k \in appended)
    /\ [][\A j \in DOMAIN jobs :
            jobs[j] \in {"done", "failed"} =>
               /\ jobs'[j] = jobs[j]
               /\ RowsOfJob(db', j) = RowsOfJob(db, j)]_vars

\* A job stopped at its second iteration, whose append failed, and another
\* job ran all its iterations.
C19_Witness ==
    /\ \E j \in DOMAIN jobs : jobs[j] = "failed" /\ FramesOf(j) = {0}
    /\ \E j \in DOMAIN jobs : jobs[j] = "done" /\ FramesOf(j) = 0..(VideoIterations - 1)

\* C20: record ids increase in the order the rows are written, and a record
\* with a larger id has a timestamp that is not earlier.
C20_IdOrderIsTimeOrder ==
    /\ \A k \in DOMAIN db : db[k].id = k
    /\ \A a, b \in DOMAIN db : a < b => db[a].ts <= db[b].ts

Received(type) == {k \in DOMAIN sub.inbox : sub.inbox[k].type = type}

\* C15 as claimed: the first event a newly connected client receives is the
\* 'settings' event, and it never receives a 'detection' event for a record
\* that was appended before it connected.
C15_SettingsFirstNoEarlierRecord ==
    /\ sub.inbox # <<>> => sub.inbox[1].type = "settings"
    /\ sub.st = "connected" => Received("settings") # {}
    /\ \A k \in Received("detection") : sub.inbox[k].id \notin sub.before

\* C15 as amended: handle_connect sends the connecting client exactly one
\* 'settings' event, carrying the settings as they are when it runs; the
\* client receives nothing before it connects and no 'detection' event that
\* was emitted before it connected; every 'detection' event it receives was
\* emitted, once, after it joined.
C15_SettingsSnapshotNoBacklog ==
    /\ [](/\ sub.st = "out" => sub.inbox = <<>>
          /\ sub.st = "joined" => Received("settings") = {}
          /\ sub.st = "connected" => Cardinality(Received("settings")) = 1
          /\ \A k \in Received("detection") :
                /\ sub.inbox[k].id \notin sub.old
                /\ sub.inbox[k].id \in emitted
                /\ \A m \in Received("detection") : sub.inbox[m].id = sub.inbox[k].id => m = k)
    /\ [][(sub.st = "joined" /\ sub'.st = "connected") =>
            sub'.inbox = Append(sub.inbox, [type |-> "settings", val |-> settings])]_vars

\* The client connected after a detection had been emitted and after the
\* threshold had been changed; it got the changed settings and then the
\* detection of a later frame, and nothing of the earlier one.
C15_Witness ==
    /\ sub.st = "connected"
    /\ sub.old # {}
    /\ Len(sub.inbox) = 2
    /\ sub.inbox[1].type = "settings"
    /\ sub.inbox[1].val.threshold # Fin(InitialThreshold)
    /\ sub.inbox[2].type = "detection"

\* The cases in which the estimate cannot be computed: camera or stereo
\* parameters, the disparity map or the depth model are missing, or the
\* bounding box is empty or degenerate.
KnownMethods == {"pinhole", "bbox", "stereo", "midas"}
DegenerateBox(bbox) == bbox[3] <= bbox[1] \/ bbox[4] <= bbox[2]
CannotEstimate ==
    \/ DegenerateBox(est.bbox)
    \/ est.method = "pinhole" /\
          (est.camera_params.ty = "none" \/ est.camera_params.focal_length_px.ty = "none")
    \/ est.method = "stereo" /\
          (\/ est.disparity_map.ty = "none"
           \/ est.stereo_params.ty = "none"
           \/ est.stereo_params.focal_length_px.ty = "none"
           \/ est.stereo_params.baseline_m.ty = "none")
    \/ est.method = "midas"

\* C16: for a known method estimate_distance_for_bbox returns a float and
\* never raises; the float is inf whenever the estimate cannot be computed,
\* and never nan; an unknown method raises ValueError.
C16_InfOnFailure ==
    est.called =>
       IF est.method \in KnownMethods
       THEN /\ est.out.kind = "return"
            /\ est.out.f.k # "nan"
            /\ CannotEstimate => est.out.f = PosInf
       ELSE est.out.kind = "raise" /\ est.out.exc = "ValueError"

\* C21: when the evaluation of a record's alert condition has ended, a
\* record that was notified has seen, between the commit of its INSERT
\* and the emit, a state of the settings in which
\* alerts_enabled and distance <= threshold held together, and a record that
\* was not notified has seen a state in which the policy was false.
C21_OneSnapshot ==
    \A t \in Appenders :
       pc[t] \in {"sleep", "respond"} =>
          IF loc[t].row.id \in emitted THEN loc[t].sawT ELSE loc[t].sawF

====
